---- MODULE Spec2Model ----
(***************************************************************************)
(* Vivy Components: the typed model of a Vivy JSON document                *)
(* (src/src/vivy_types.py), its decoding from a raw dictionary             *)
(* (src/src/vivy_parse.py), its encoding back (dump_json) and the mapping  *)
(* resolution query (base_to_vivy).                                        *)
(*                                                                         *)
(* Python values are modelled as follows.                                  *)
(*   None            the record [none |-> TRUE]                            *)
(*   a str value     the record [str |-> s]   (PyStr)                      *)
(*   a dict          a function whose domain is the set of its keys; keys  *)
(*                   are TLA+ strings                                      *)
(*   a list          a sequence                                            *)
(*   a dataclass     a record with one field per attribute                 *)
(* A call either returns, [ret |-> v], or raises, [raise |-> "KeyError",   *)
(* args |-> k], where k is the key whose lookup failed.                    *)
(* A dict here has no insertion order of its own; where Python iterates a  *)
(* dict, the model iterates its keys in the order they have in KeyOrder.   *)
(***************************************************************************)
EXTENDS Integers, Sequences, FiniteSets, TLC

VARIABLES data, raw_dict, parsed, answer, answer2, redump

vars == <<data, raw_dict, parsed, answer, answer2, redump>>

----------------------------------------------------------------------------
(* Bounds *)

\* the largest number of keys in a refinements object / of present fields in
\* a VivyRefinements
MaxRefFields == 2

\* the largest number of mapping entries in a document
MaxEntries == 2

----------------------------------------------------------------------------
(* Python values *)

None == [none |-> TRUE]

PyStr(s) == [str |-> s]

Return(v) == [ret |-> v]

KeyError(k) == [raise |-> "KeyError", args |-> k]

IsRaise(r) == "raise" \in DOMAIN r

IsReturn(r) == "ret" \in DOMAIN r

\* d[k] on a dict
GetItem(d, k) == IF k \in DOMAIN d THEN Return(d[k]) ELSE KeyError(k)

\* the empty dict / the empty list
Empty == <<>>

\* the external names and material keys of the documents considered, in the
\* order in which a dict holding them is iterated
KeyOrder == <<"M1", "M2">>

Names == {KeyOrder[i] : i \in 1..Len(KeyOrder)}

\* the keys of dict d as Python iterates them
Keys(d) == SelectSeq(KeyOrder, LAMBDA k : k \in DOMAIN d)

----------------------------------------------------------------------------
(* vivy_types.py: the dataclasses and their dump_json *)

\* fields(VivyPasses)
VivyPassesFields == {"diffuse", "specular", "normal"}

\* fields(VivyRefinements)
VivyRefinementsFields ==
    {"emissive", "reflective", "metallic", "glass",
     "fallback_n", "fallback_s", "fallback"}

\* fields(VivyMapping)
VivyMappingFields == {"material", "refinement"}

\* VivyPasses.dump_json testing truthiness instead of "is not None"
VivyPasses_dump_json_truthy(self) ==
    [name \in {f \in VivyPassesFields :
                  self[f] # None /\ self[f] # PyStr("")} |-> self[name]]

VivyPasses_dump_json(self) ==
    [name \in {f \in VivyPassesFields : self[f] # None} |-> self[name]]

VivyRefinements_dump_json(self) ==
    [name \in {f \in VivyRefinementsFields : self[f] # None} |-> self[name]]

VivyMapping_dump_json(self) ==
    [name \in {f \in VivyMappingFields : self[f] # None} |-> self[name]]

\* VivyMaterial.dump_json leaving out a refinements object that is empty
VivyMaterial_dump_json_truthy(self) ==
    LET d == [base_material |-> self.base_material,
              desc          |-> self.desc,
              passes        |-> VivyPasses_dump_json(self.passes)]
    IN  IF /\ self.refinements # None
           /\ VivyRefinements_dump_json(self.refinements) # Empty
        THEN d @@ [k \in {"refinements"} |->
                      VivyRefinements_dump_json(self.refinements)]
        ELSE d

VivyMaterial_dump_json(self) ==
    LET d == [base_material |-> self.base_material,
              desc          |-> self.desc,
              passes        |-> VivyPasses_dump_json(self.passes)]
    IN  IF self.refinements # None
        THEN d @@ [k \in {"refinements"} |->
                      VivyRefinements_dump_json(self.refinements)]
        ELSE d

VivyData_dump_json(self) ==
    [materials |->
        [mat \in DOMAIN self.materials |->
            VivyMaterial_dump_json(self.materials[mat])],
     mapping |->
        [map \in DOMAIN self.mapping |->
            [i \in 1..Len(self.mapping[map]) |->
                VivyMapping_dump_json(self.mapping[map][i])]]]

\* base_to_vivy returning the material of the entry in first position
base_to_vivy_scan_first_position(self, mapping_list, i) ==
    IF i > Len(mapping_list)
    THEN Return(None)
    ELSE GetItem(self.materials, mapping_list[i].material.str)

\* base_to_vivy looking every entry's material up before testing its refinement
RECURSIVE base_to_vivy_scan_lookup_first(_, _, _)
base_to_vivy_scan_lookup_first(self, mapping_list, i) ==
    IF i > Len(mapping_list)
    THEN Return(None)
    ELSE LET m   == mapping_list[i]
             mat == GetItem(self.materials, m.material.str)
         IN  IF IsRaise(mat) \/ m.refinement = None
             THEN mat
             ELSE base_to_vivy_scan_lookup_first(self, mapping_list, i + 1)

\* base_to_vivy using self.materials.get(m.material)
RECURSIVE base_to_vivy_scan_get(_, _, _)
base_to_vivy_scan_get(self, mapping_list, i) ==
    IF i > Len(mapping_list)
    THEN Return(None)
    ELSE LET m == mapping_list[i]
         IN  IF m.refinement = None
             THEN IF m.material.str \in DOMAIN self.materials
                  THEN Return(self.materials[m.material.str])
                  ELSE Return(None)
             ELSE base_to_vivy_scan_get(self, mapping_list, i + 1)

\* the for loop of base_to_vivy, from entry i of mapping_list on
RECURSIVE base_to_vivy_scan(_, _, _)
base_to_vivy_scan(self, mapping_list, i) ==
    IF i > Len(mapping_list)
    THEN Return(None)
    ELSE LET m == mapping_list[i]
         IN  IF m.refinement = None
             THEN GetItem(self.materials, m.material.str)
             ELSE base_to_vivy_scan(self, mapping_list, i + 1)

VivyData_base_to_vivy(self, name) ==
    LET mapping_list == GetItem(self.mapping, name)
    IN  IF IsRaise(mapping_list)
        THEN mapping_list
        ELSE base_to_vivy_scan(self, mapping_list.ret, 1)

\* self after self.dump_json(): the method and the dump_json methods it
\* calls build new dicts and assign nothing to self
VivyData_dump_json_self(self) == self

\* base_to_vivy taking the list with self.mapping.pop(name)
VivyData_base_to_vivy_self_pop(self, name) ==
    [self EXCEPT !.mapping =
        [n \in DOMAIN self.mapping \ {name} |-> self.mapping[n]]]

\* self after self.base_to_vivy(name), whether it returned or raised: the
\* method reads self.mapping and self.materials and assigns nothing
VivyData_base_to_vivy_self(self, name) == self

----------------------------------------------------------------------------
(* vivy_parse.py: decoding *)

\* md[read] if check in md else None
ReadIfPresent(md, check, read) ==
    IF check \in DOMAIN md THEN GetItem(md, read) ELSE Return(None)

\* the key tested for presence before each VivyRefinements field is read
RefinementCheckKey ==
    [f \in VivyRefinementsFields |->
        IF f = "reflective" THEN "reflecive" ELSE f]

\* the VivyRefinements(...) constructor call of read_vivy_materials
read_vivy_refinements(rd) ==
    LET r == [f \in VivyRefinementsFields |->
                 ReadIfPresent(rd, RefinementCheckKey[f], f)]
    IN  IF IsRaise(r["reflective"])
        THEN r["reflective"]
        ELSE Return([f \in VivyRefinementsFields |-> r[f].ret])

\* the VivyPasses(...) constructor call of read_vivy_materials
read_vivy_passes(pd) ==
    LET diffuse == GetItem(pd, "diffuse")
    IN  IF IsRaise(diffuse)
        THEN diffuse
        ELSE Return([diffuse  |-> diffuse.ret,
                     specular |-> ReadIfPresent(pd, "specular", "specular").ret,
                     normal   |-> ReadIfPresent(pd, "normal", "normal").ret])

\* the body of the loop of read_vivy_materials: the VivyMaterial built from md
read_vivy_material(md) ==
    LET base_material == GetItem(md, "base_material")
        desc          == GetItem(md, "desc")
        passes_dict   == GetItem(md, "passes")
        passes        == read_vivy_passes(passes_dict.ret)
        refinements   == IF "refinements" \notin DOMAIN md
                         THEN Return(None)
                         ELSE read_vivy_refinements(md["refinements"])
    IN  IF IsRaise(base_material) THEN base_material
        ELSE IF IsRaise(desc) THEN desc
        ELSE IF IsRaise(passes_dict) THEN passes_dict
        ELSE IF IsRaise(passes) THEN passes
        ELSE IF IsRaise(refinements) THEN refinements
        ELSE Return([base_material |-> base_material.ret,
                     desc          |-> desc.ret,
                     passes        |-> passes.ret,
                     refinements   |-> refinements.ret])

\* the loop of read_vivy_materials over the keys still to be read
RECURSIVE read_vivy_materials_loop(_, _, _)
read_vivy_materials_loop(vivy_materials_dict, keys, final_dict) ==
    IF keys = <<>>
    THEN Return(final_dict)
    ELSE LET key == Head(keys)
             mat == read_vivy_material(vivy_materials_dict[key])
         IN  IF IsRaise(mat)
             THEN mat
             ELSE read_vivy_materials_loop(vivy_materials_dict, Tail(keys),
                      [k \in DOMAIN final_dict \cup {key} |->
                          IF k = key THEN mat.ret ELSE final_dict[k]])

read_vivy_materials(vivy_materials_dict) ==
    read_vivy_materials_loop(vivy_materials_dict, Keys(vivy_materials_dict),
                             Empty)

\* read_vivy_mappings using m.get("material")
read_vivy_mapping_get(m) ==
    Return([material   |-> IF "material" \in DOMAIN m
                           THEN m["material"] ELSE None,
            refinement |-> ReadIfPresent(m, "refinement", "refinement").ret])

\* the VivyMapping(...) constructor call of read_vivy_mappings
read_vivy_mapping(m) ==
    LET material == GetItem(m, "material")
    IN  IF IsRaise(material)
        THEN material
        ELSE Return([material   |-> material.ret,
                     refinement |->
                         ReadIfPresent(m, "refinement", "refinement").ret])

\* the inner loop of read_vivy_mappings: maps[i..] appended to list
RECURSIVE read_vivy_mappings_inner(_, _, _)
read_vivy_mappings_inner(maps, i, list) ==
    IF i > Len(maps)
    THEN Return(list)
    ELSE LET m == read_vivy_mapping(maps[i])
         IN  IF IsRaise(m)
             THEN m
             ELSE read_vivy_mappings_inner(maps, i + 1, Append(list, m.ret))

\* the outer loop of read_vivy_mappings over the names still to be read
RECURSIVE read_vivy_mappings_loop(_, _, _)
read_vivy_mappings_loop(vivy_mappings_dict, keys, final_dict) ==
    IF keys = <<>>
    THEN Return(final_dict)
    ELSE LET mat  == Head(keys)
             list == read_vivy_mappings_inner(vivy_mappings_dict[mat], 1, <<>>)
         IN  IF IsRaise(list)
             THEN list
             ELSE read_vivy_mappings_loop(vivy_mappings_dict, Tail(keys),
                      [k \in DOMAIN final_dict \cup {mat} |->
                          IF k = mat THEN list.ret ELSE final_dict[k]])

read_vivy_mappings(vivy_mappings_dict) ==
    read_vivy_mappings_loop(vivy_mappings_dict, Keys(vivy_mappings_dict),
                            Empty)

dict_to_vivy_data(raw) ==
    LET materials == read_vivy_materials(raw.materials)
        mapping   == read_vivy_mappings(raw.mapping)
    IN  IF IsRaise(materials) THEN materials
        ELSE IF IsRaise(mapping) THEN mapping
        ELSE Return([materials |-> materials.ret, mapping |-> mapping.ret])

----------------------------------------------------------------------------
(* The values the callers construct and the documents they supply *)

\* an optional str attribute: None, the empty string or a non-empty string
OptStrs == {None, PyStr(""), PyStr("A")}

\* a str found in a supplied document
DocStrs == {PyStr(""), PyStr("A")}

NumPresent(r) == Cardinality({f \in DOMAIN r : r[f] # None})

PassesValues ==
    [diffuse : {PyStr("Diffuse")}, specular : OptStrs, normal : OptStrs]

RefinementsValues ==
    {r \in [VivyRefinementsFields -> OptStrs] : NumPresent(r) <= MaxRefFields}

MaterialValues ==
    [base_material : {PyStr("A"), PyStr("B")},
     desc          : {PyStr("D")},
     passes        : PassesValues,
     refinements   : RefinementsValues \cup {None}]

\* a VivyData with one material of any shape, mapped from its own name
MaterialData ==
    {[materials |-> [k \in {key} |-> m],
      mapping   |-> [k \in {key} |->
                        <<[material |-> PyStr(key), refinement |-> None]>>]] :
        key \in Names, m \in MaterialValues}

\* the material without optional attributes stored under key k
SimpleMaterial(k) ==
    [base_material |-> PyStr(k),
     desc          |-> PyStr("D"),
     passes        |-> [diffuse  |-> PyStr("Diffuse"),
                        specular |-> None,
                        normal   |-> None],
     refinements   |-> None]

MappingValues ==
    [material   : {PyStr(n) : n \in Names},
     refinement : {None, PyStr(""), PyStr("fallback")}]

SeqsUpTo(S, n) == UNION {[1..k -> S] : k \in 0..n}

\* the number of list items of a mapping table
RECURSIVE TotalLen(_, _)
TotalLen(t, keys) ==
    IF keys = <<>> THEN 0 ELSE Len(t[Head(keys)]) + TotalLen(t, Tail(keys))

TablesOver(S) ==
    {t \in UNION {[N -> SeqsUpTo(S, MaxEntries)] : N \in SUBSET Names} :
        TotalLen(t, Keys(t)) <= MaxEntries}

\* a VivyData with any mapping table over simple materials; a mapping entry
\* may name a material the materials table lacks
MappingData ==
    {[materials |-> [k \in M |-> SimpleMaterial(k)], mapping |-> t] :
        M \in SUBSET Names, t \in TablesOver(MappingValues)}

DataInputs == MaterialData \cup MappingData

\* the keys a supplied refinements object may carry: the seven of the
\* grammar, the misspelt one the decoder tests for, and a foreign one
RefineObjKeys == VivyRefinementsFields \cup {"reflecive", "unknown"}

RefineObjs ==
    UNION {[K -> DocStrs] :
              K \in {S \in SUBSET RefineObjKeys : Cardinality(S) <= MaxRefFields}}

PassesObjs ==
    UNION {[K -> DocStrs] : K \in SUBSET VivyPassesFields}

\* a document with one material whose required keys are there and whose
\* passes and refinements objects are arbitrary
RefineDocs ==
    {[materials |-> [k \in {"M1"} |-> mo],
      mapping   |-> [k \in {"M1"} |-> <<[material |-> PyStr("M1")]>>]] :
        mo \in {[base_material |-> PyStr("A"), desc |-> PyStr("D"),
                 passes |-> p] : p \in {q \in PassesObjs : "diffuse" \in DOMAIN q}}
           \cup
              {[base_material |-> PyStr("A"), desc |-> PyStr("D"),
                passes |-> p, refinements |-> r] :
                  p \in {q \in PassesObjs : "diffuse" \in DOMAIN q},
                  r \in RefineObjs}}

\* the encoded SimpleMaterial(k) with the keys of lacks left out
\* ("diffuse" stands for the diffuse key of its passes object)
MaterialObjLacking(k, lacks) ==
    LET full == [base_material |-> PyStr(k), desc |-> PyStr("D"),
                 passes |-> [j \in {"diffuse"} \ lacks |-> PyStr("Diffuse")]]
    IN  [j \in DOMAIN full \ lacks |-> full[j]]

RequiredKeys == {"base_material", "desc", "passes", "diffuse"}

MappingObjs ==
    {[k \in K |-> m[k]] :
        K \in SUBSET VivyMappingFields,
        m \in [material   : {PyStr(n) : n \in Names},
               refinement : {PyStr("fallback")}]}

\* a document whose materials and mapping entries each lack at most one
\* required key
LackingDocs ==
    {[materials |-> [k \in M |-> MaterialObjLacking(k, lacks[k])],
      mapping   |-> t] :
        M \in {{"M1"}, Names},
        lacks \in [Names -> {{}} \cup {{k} : k \in RequiredKeys}],
        t \in {u \in TablesOver(MappingObjs) : DOMAIN u # {}}}

DocInputs == RefineDocs \cup LackingDocs

----------------------------------------------------------------------------
(* The callers *)

\* Either a caller has constructed a VivyData, or it holds a raw dictionary
Init ==
    /\ \/ data \in DataInputs /\ raw_dict = None
       \/ data = None /\ raw_dict \in DocInputs
    /\ parsed = None
    /\ answer = None
    /\ answer2 = None
    /\ redump = None

\* raw_dict = data.dump_json()
DumpJson ==
    /\ data # None
    /\ raw_dict = None
    /\ raw_dict' = VivyData_dump_json(data)
    /\ data' = VivyData_dump_json_self(data)
    /\ UNCHANGED <<parsed, answer, answer2, redump>>

\* parsed = dict_to_vivy_data(raw_dict), or the exception it raised
DictToVivyData ==
    /\ raw_dict # None
    /\ parsed = None
    /\ parsed' = dict_to_vivy_data(raw_dict)
    /\ UNCHANGED <<data, raw_dict, answer, answer2, redump>>

\* answer = data.base_to_vivy(name), or the exception it raised
BaseToVivy(name) ==
    /\ data # None
    /\ answer' = [name |-> name, result |-> VivyData_base_to_vivy(data, name)]
    /\ data' = VivyData_base_to_vivy_self(data, name)
    /\ UNCHANGED <<raw_dict, parsed, answer2, redump>>

\* answer2 = parsed.base_to_vivy(name), or the exception it raised
BaseToVivyParsed(name) ==
    /\ parsed # None
    /\ IsReturn(parsed)
    /\ answer2' = [name |-> name,
                   result |-> VivyData_base_to_vivy(parsed.ret, name)]
    /\ parsed' = Return(VivyData_base_to_vivy_self(parsed.ret, name))
    /\ UNCHANGED <<data, raw_dict, answer, redump>>

\* redump = parsed.dump_json()
DumpJsonParsed ==
    /\ parsed # None
    /\ IsReturn(parsed)
    /\ redump = None
    /\ redump' = VivyData_dump_json(parsed.ret)
    /\ parsed' = Return(VivyData_dump_json_self(parsed.ret))
    /\ UNCHANGED <<data, raw_dict, answer, answer2>>

Next ==
    \/ DumpJson
    \/ DictToVivyData
    \/ \E name \in Names : BaseToVivy(name)
    \/ \E name \in Names : BaseToVivyParsed(name)
    \/ DumpJsonParsed

Spec == Init /\ [][Next]_vars

----------------------------------------------------------------------------
(* Vocabulary of the properties *)

\* the caller that constructed data has run data.dump_json()
Dumped == data # None /\ raw_dict # None

\* ... and has decoded the result
RoundTripped == Dumped /\ parsed # None

\* the position of the first entry of list without a refinement, 0 if none
FirstUnrefined(list) ==
    LET S == {i \in 1..Len(list) : list[i].refinement = None}
    IN  IF S = {} THEN 0 ELSE CHOOSE i \in S : \A j \in S : i <= j

\* what resolving name over d amounts to
QueryCase(d, name) ==
    IF name \notin DOMAIN d.mapping THEN "unknown-external-name"
    ELSE LET list == d.mapping[name]
             i    == FirstUnrefined(list)
         IN  IF i = 0 THEN "no-base-mapping"
             ELSE IF list[i].material.str \notin DOMAIN d.materials
                  THEN "dangling-reference"
                  ELSE "found"

\* the optional key of a source object and the model field decoded from it
Agrees(obj, key, field) ==
    IF key \in DOMAIN obj THEN field = obj[key] ELSE field = None

----------------------------------------------------------------------------
(* C1 *)

\* C1: round-trip law. For every valid VivyData d,
\* dict_to_vivy_data(d.dump_json()) returns a value equal to d.
C1_RoundTrip == RoundTripped => parsed = Return(data)

----------------------------------------------------------------------------
(* C2 *)

\* C2: presence, not truthiness, uniformly. For each of the ten optional
\* fields, the decoded field is None iff its key is absent from the source
\* object, and equals the source value when the key is present.
C2_PresenceNotTruthiness ==
    (parsed # None /\ IsReturn(parsed)) =>
        /\ \A k \in DOMAIN raw_dict.materials :
              LET md == raw_dict.materials[k]
                  m  == parsed.ret.materials[k]
              IN  /\ \A f \in {"specular", "normal"} :
                         Agrees(md.passes, f, m.passes[f])
                  /\ "refinements" \in DOMAIN md =>
                         \A f \in VivyRefinementsFields :
                             Agrees(md.refinements, f, m.refinements[f])
        /\ \A n \in DOMAIN raw_dict.mapping :
              \A i \in 1..Len(raw_dict.mapping[n]) :
                  Agrees(raw_dict.mapping[n][i], "refinement",
                         parsed.ret.mapping[n][i].refinement)

----------------------------------------------------------------------------
(* C3 *)

\* C3: first-match resolution. For a name present in mapping whose list has
\* an entry without refinement, base_to_vivy yields materials[e.material] for
\* the first such entry e, wherever it stands: a KeyError for e.material if
\* the materials table lacks it, the material otherwise. Refined entries
\* before e and unrefined entries after e have no influence.
C3_FirstMatch ==
    (answer # None /\ answer.name \in DOMAIN data.mapping) =>
        LET list == data.mapping[answer.name]
            i    == FirstUnrefined(list)
        IN  i > 0 =>
               LET key == list[i].material.str
               IN  IF key \in DOMAIN data.materials
                   THEN answer.result = Return(data.materials[key])
                   ELSE answer.result = KeyError(key)

\* a refined entry naming another material was skipped and the unrefined
\* entry after it decided the result
C3_Witness ==
    /\ answer # None
    /\ answer.name \in DOMAIN data.mapping
    /\ LET list == data.mapping[answer.name]
       IN  /\ Len(list) = 2
           /\ list[1].refinement # None
           /\ list[2].refinement = None
           /\ list[1].material # list[2].material
           /\ list[1].material.str \in DOMAIN data.materials
           /\ IsReturn(answer.result)
           /\ answer.result = Return(data.materials[list[2].material.str])

----------------------------------------------------------------------------
(* C4 *)

\* C4: for a name present in mapping all of whose entries carry a refinement
\* (the empty list included), base_to_vivy returns None and raises nothing,
\* also when those entries name materials the materials table lacks.
C4_NoBaseMapping ==
    (answer # None /\ answer.name \in DOMAIN data.mapping) =>
        LET list == data.mapping[answer.name]
        IN  (\A i \in 1..Len(list) : list[i].refinement # None) =>
                answer.result = Return(None)

\* None was returned for a list whose only entries are refined and dangling
C4_Witness ==
    /\ answer # None
    /\ answer.name \in DOMAIN data.mapping
    /\ LET list == data.mapping[answer.name]
       IN  /\ Len(list) >= 1
           /\ \A i \in 1..Len(list) :
                 /\ list[i].refinement # None
                 /\ list[i].material.str \notin DOMAIN data.materials
    /\ answer.result = Return(None)

----------------------------------------------------------------------------
(* C5 *)

\* C5: the three non-success outcomes of resolution are pairwise
\* distinguishable by the caller: the result for a name absent from mapping
\* (unknown external name), the result for a name whose first unrefined entry
\* names a missing material (dangling reference) and the "no base mapping"
\* result differ from one another.
C5_OutcomesDistinct ==
    answer # None =>
        \A n \in Names :
            LET mine   == QueryCase(data, answer.name)
                theirs == QueryCase(data, n)
            IN  (mine # "found" /\ theirs # "found" /\ mine # theirs) =>
                    answer.result # VivyData_base_to_vivy(data, n)

----------------------------------------------------------------------------
(* C6 *)

\* the optional key of an encoded object and the model value it encodes:
\* there iff the value is present, and then carrying the value
Emitted(obj, key, value) ==
    /\ key \in DOMAIN obj <=> value # None
    /\ key \in DOMAIN obj => obj[key] = value

\* no key of obj holds a null
NoNull(obj) == \A key \in DOMAIN obj : obj[key] # None

\* C6: encode is omit-if-absent. dump_json always emits base_material, desc,
\* passes, passes.diffuse and every mapping entry's material; it emits an
\* optional key iff the value is present (the empty string included), with
\* that value; and no emitted key holds a null.
C6_OmitIfAbsent ==
    Dumped =>
        /\ DOMAIN raw_dict.materials = DOMAIN data.materials
        /\ \A k \in DOMAIN data.materials :
              LET m == data.materials[k]
                  o == raw_dict.materials[k]
              IN  /\ {"base_material", "desc", "passes"} \subseteq DOMAIN o
                  /\ o.base_material = m.base_material
                  /\ o.desc = m.desc
                  /\ "diffuse" \in DOMAIN o.passes
                  /\ o.passes.diffuse = m.passes.diffuse
                  /\ \A f \in {"specular", "normal"} :
                         Emitted(o.passes, f, m.passes[f])
                  /\ NoNull(o.passes)
                  /\ "refinements" \in DOMAIN o <=> m.refinements # None
                  /\ m.refinements # None =>
                         /\ \A f \in VivyRefinementsFields :
                                Emitted(o.refinements, f, m.refinements[f])
                         /\ NoNull(o.refinements)
        /\ DOMAIN raw_dict.mapping = DOMAIN data.mapping
        /\ \A n \in DOMAIN data.mapping :
              /\ Len(raw_dict.mapping[n]) = Len(data.mapping[n])
              /\ \A i \in 1..Len(data.mapping[n]) :
                    LET e == data.mapping[n][i]
                        o == raw_dict.mapping[n][i]
                    IN  /\ "material" \in DOMAIN o
                        /\ o.material = e.material
                        /\ Emitted(o, "refinement", e.refinement)
                        /\ NoNull(o)

\* a material with an empty-string specular, no normal and a refinements
\* value holding an empty string has been encoded
C6_Witness ==
    /\ Dumped
    /\ \E k \in DOMAIN data.materials :
          LET m == data.materials[k]
          IN  /\ m.passes.specular = PyStr("")
              /\ m.passes.normal = None
              /\ m.refinements # None
              /\ m.refinements.glass = PyStr("")
              /\ m.refinements.fallback = None
              /\ DOMAIN raw_dict.materials[k].passes = {"diffuse", "specular"}

----------------------------------------------------------------------------
(* C7 *)

\* a VivyRefinements whose seven fields are all None
AllAbsent == [f \in VivyRefinementsFields |-> None]

\* C7: refinements = None and refinements = VivyRefinements(all None) are
\* distinct and survive encode then decode: the first is encoded without a
\* "refinements" key and decoded to None, the second is encoded with an
\* empty "refinements" object and decoded to a VivyRefinements of Nones.
C7_AbsentVersusEmpty ==
    Dumped =>
        \A k \in DOMAIN data.materials :
            LET m == data.materials[k]
                o == raw_dict.materials[k]
            IN  /\ m.refinements = None =>
                       /\ "refinements" \notin DOMAIN o
                       /\ parsed # None =>
                             /\ IsReturn(parsed)
                             /\ parsed.ret.materials[k].refinements = None
                /\ m.refinements = AllAbsent =>
                       /\ "refinements" \in DOMAIN o
                       /\ o.refinements = Empty
                       /\ parsed # None =>
                             /\ IsReturn(parsed)
                             /\ parsed.ret.materials[k].refinements
                                    = AllAbsent

\* a material whose refinements are present and all None has gone through
\* dump_json and dict_to_vivy_data
C7_Witness ==
    /\ RoundTripped
    /\ \E k \in DOMAIN data.materials :
          /\ data.materials[k].refinements = AllAbsent
          /\ "refinements" \in DOMAIN raw_dict.materials[k]

----------------------------------------------------------------------------
(* C8 *)

\* material object md lacks a required key
MaterialLacksRequired(md) ==
    \/ ~ ({"base_material", "desc", "passes"} \subseteq DOMAIN md)
    \/ "diffuse" \notin DOMAIN md.passes

\* some material or mapping entry of document doc lacks a required key
LacksRequired(doc) ==
    \/ \E k \in DOMAIN doc.materials : MaterialLacksRequired(doc.materials[k])
    \/ \E n \in DOMAIN doc.mapping :
          \E i \in 1..Len(doc.mapping[n]) :
              "material" \notin DOMAIN doc.mapping[n][i]

\* C8: decode is all-or-nothing. If any material lacks base_material, desc,
\* passes or passes.diffuse, or any mapping entry lacks material,
\* dict_to_vivy_data raises and returns no VivyData, whatever else the
\* document holds and wherever the bad entity stands.
C8_AllOrNothing ==
    (parsed # None /\ LacksRequired(raw_dict)) =>
        /\ IsRaise(parsed)
        /\ ~ IsReturn(parsed)
        /\ parsed.args \in {"base_material", "desc", "passes", "diffuse",
                            "material"}

\* decoding failed on a document whose first material and whose first
\* mapping entry are well formed and whose last mapping entry lacks material
C8_Witness ==
    /\ data = None
    /\ parsed # None
    /\ IsRaise(parsed)
    /\ DOMAIN raw_dict.materials = Names
    /\ \A k \in Names : ~ MaterialLacksRequired(raw_dict.materials[k])
    /\ \E n \in DOMAIN raw_dict.mapping :
          LET list == raw_dict.mapping[n]
          IN  /\ Len(list) = 2
              /\ DOMAIN list[1] = {"material", "refinement"}
              /\ "material" \notin DOMAIN list[2]

----------------------------------------------------------------------------
(* C9 *)

\* some refinements object of doc carries the misspelt key the decoder tests
\* for without the key it then reads
MisspeltOnly(doc) ==
    \E k \in DOMAIN doc.materials :
        /\ "refinements" \in DOMAIN doc.materials[k]
        /\ "reflecive" \in DOMAIN doc.materials[k].refinements
        /\ "reflective" \notin DOMAIN doc.materials[k].refinements

\* some mapping entry of VivyData d names a material d.materials lacks
HasDangling(d) ==
    \E n \in DOMAIN d.mapping :
        \E i \in 1..Len(d.mapping[n]) :
            d.mapping[n][i].material.str \notin DOMAIN d.materials

\* C9: cross-references are not validated at decode time. A document whose
\* mapping entries name materials it lacks decodes like any other (decoding
\* fails only for a missing key); the dangling reference surfaces when
\* base_to_vivy selects the entry, as the first unrefined one of the queried
\* name, and then as a raised error, never as None; a dangling entry that is
\* not selected raises nothing.
C9_DanglingAtResolution ==
    /\ (parsed # None /\ IsRaise(parsed)) =>
          LacksRequired(raw_dict) \/ MisspeltOnly(raw_dict)
    /\ answer2 # None =>
          LET case == QueryCase(parsed.ret, answer2.name)
          IN  /\ case = "dangling-reference" =>
                    /\ IsRaise(answer2.result)
                    /\ answer2.result # Return(None)
              /\ case \in {"no-base-mapping", "found"} =>
                    IsReturn(answer2.result)

\* a supplied document with a dangling entry was decoded, and resolving the
\* name whose first unrefined entry dangles raised
C9_Witness ==
    /\ data = None
    /\ parsed # None
    /\ IsReturn(parsed)
    /\ HasDangling(parsed.ret)
    /\ answer2 # None
    /\ QueryCase(parsed.ret, answer2.name) = "dangling-reference"
    /\ IsRaise(answer2.result)

----------------------------------------------------------------------------
(* C10 *)

\* C10: mapping entry order is preserved in both directions. The encoded
\* array has the length of the model sequence and its i-th element encodes
\* the i-th entry; the decoded sequence has the length of the array and its
\* i-th entry decodes the i-th element; consequently base_to_vivy answers
\* the same before and after an encode/decode round trip.
C10_OrderPreserved ==
    Dumped =>
        /\ \A n \in DOMAIN data.mapping :
              /\ n \in DOMAIN raw_dict.mapping
              /\ Len(raw_dict.mapping[n]) = Len(data.mapping[n])
              /\ \A i \in 1..Len(data.mapping[n]) :
                    raw_dict.mapping[n][i]
                        = VivyMapping_dump_json(data.mapping[n][i])
        /\ parsed # None =>
              /\ IsReturn(parsed)
              /\ \A n \in DOMAIN raw_dict.mapping :
                    /\ n \in DOMAIN parsed.ret.mapping
                    /\ Len(parsed.ret.mapping[n]) = Len(raw_dict.mapping[n])
                    /\ \A i \in 1..Len(raw_dict.mapping[n]) :
                          Return(parsed.ret.mapping[n][i])
                              = read_vivy_mapping(raw_dict.mapping[n][i])
              /\ (answer # None /\ answer2 # None
                      /\ answer.name = answer2.name) =>
                    answer.result = answer2.result

----------------------------------------------------------------------------
(* C11 *)

\* refinements object rd is not empty and carries none of the seven
\* recognized keys
OnlyUnrecognized(rd) ==
    /\ DOMAIN rd # {}
    /\ DOMAIN rd \cap VivyRefinementsFields = {}

\* C11: unknown keys inside a refinements object are ignored, not errors.
\* Decoding a material whose refinements object holds only keys other than
\* the seven recognized names, whatever those keys are, succeeds and yields
\* a present VivyRefinements whose seven fields are all None.
C11_UnknownKeysIgnored ==
    (parsed # None /\ ~ LacksRequired(raw_dict)) =>
        \A k \in DOMAIN raw_dict.materials :
            LET md == raw_dict.materials[k]
            IN  ("refinements" \in DOMAIN md
                     /\ OnlyUnrecognized(md.refinements)) =>
                    /\ IsReturn(parsed)
                    /\ parsed.ret.materials[k].refinements = AllAbsent

----------------------------------------------------------------------------
(* C12 *)

\* the optional key of source object obj, the model field decoded from it
\* and the object reobj the field is encoded to: the key carrying "" gives
\* an empty-string field and is emitted with "", the key left out gives None
\* and is not emitted
KeptApart(obj, key, field, reobj) ==
    /\ (key \in DOMAIN obj /\ obj[key] = PyStr("")) =>
           /\ field = PyStr("")
           /\ key \in DOMAIN reobj
           /\ reobj[key] = PyStr("")
    /\ key \notin DOMAIN obj =>
           /\ field = None
           /\ key \notin DOMAIN reobj

\* C12: absence and presence-with-empty-string never collapse. For each
\* optional key, a document carrying it with "" decodes to an empty-string
\* field and a document without it decodes to None, so the two decode to
\* different values; and each re-encodes to its own form (the key with "",
\* the key omitted).
C12_AbsentVersusEmptyString ==
    redump # None =>
        /\ \A k \in DOMAIN raw_dict.materials :
              LET md == raw_dict.materials[k]
                  m  == parsed.ret.materials[k]
                  rd == redump.materials[k]
              IN  /\ \A f \in {"specular", "normal"} :
                         KeptApart(md.passes, f, m.passes[f], rd.passes)
                  /\ "refinements" \in DOMAIN md =>
                         /\ "refinements" \in DOMAIN rd
                         /\ \A f \in VivyRefinementsFields :
                                KeptApart(md.refinements, f,
                                          m.refinements[f], rd.refinements)
        /\ \A n \in DOMAIN raw_dict.mapping :
              \A i \in 1..Len(raw_dict.mapping[n]) :
                  KeptApart(raw_dict.mapping[n][i], "refinement",
                            parsed.ret.mapping[n][i].refinement,
                            redump.mapping[n][i])

----------------------------------------------------------------------------
(* C13 *)

\* C13: queries leave the document unchanged. No base_to_vivy call (one that
\* returns a material, returns None or raises for an unknown name or a
\* dangling reference) and no dump_json call changes the materials and
\* mapping tables of the VivyData it is made on, be it the constructed one or
\* the decoded one; so a failed resolution has no effect on later
\* resolutions or encodes of the same VivyData.
C13_QueriesLeaveDataUnchanged ==
    [][/\ data' = data
       /\ parsed # None => parsed' = parsed]_vars

\* resolutions have failed on the constructed and on the decoded VivyData,
\* and both have been encoded
C13_Witness ==
    /\ data # None
    /\ answer # None
    /\ IsRaise(answer.result)
    /\ raw_dict # None
    /\ parsed # None
    /\ answer2 # None
    /\ IsRaise(answer2.result)
    /\ redump # None

----------------------------------------------------------------------------
(* C14 *)

\* document doc is well formed and uses only the keys of the documented
\* grammar: every required key, any of the optional keys, no other key
GrammarDoc(doc) ==
    /\ ~ LacksRequired(doc)
    /\ \A k \in DOMAIN doc.materials :
          LET md == doc.materials[k]
          IN  /\ DOMAIN md \subseteq
                     {"base_material", "desc", "passes", "refinements"}
              /\ DOMAIN md.passes \subseteq VivyPassesFields
              /\ "refinements" \in DOMAIN md =>
                     DOMAIN md.refinements \subseteq VivyRefinementsFields
    /\ \A n \in DOMAIN doc.mapping :
          \A i \in 1..Len(doc.mapping[n]) :
              DOMAIN doc.mapping[n][i] \subseteq VivyMappingFields

\* C14: document-side round trip. For every well-formed document j that
\* uses only the keys of the grammar ("reflective" among them),
\* dict_to_vivy_data(j) succeeds and returns a VivyData with the material
\* keys and external names of j, whose dump_json() equals j.
C14_DocumentRoundTrip ==
    (data = None /\ parsed # None /\ GrammarDoc(raw_dict)) =>
        /\ IsReturn(parsed)
        /\ DOMAIN parsed.ret.materials = DOMAIN raw_dict.materials
        /\ DOMAIN parsed.ret.mapping = DOMAIN raw_dict.mapping
        /\ redump # None => redump = raw_dict

====
